---- MODULE Spec2Model ----
(***************************************************************************)
(* Model of the BCH encoder/decoder repository:                            *)
(*   - api/bch/bch_terminal_implementation.py : the (15,7) terminal codec  *)
(*   - bch_encoder_decoder.py                 : CustomBCH and its helpers  *)
(*   - api/bch/bch.py, api/bch/utils.py       : BchCodeGenerator, BchCoder *)
(* Python integers are modelled as naturals, byte strings and numpy arrays *)
(* as sequences, binary text as sequences of the digits 0 and 1.           *)
(***************************************************************************)
EXTENDS Integers, Sequences, FiniteSets, TLC

(***************************************************************************)
(* Bounds of the model.                                                    *)
(***************************************************************************)
\* largest number of bits flipped in a terminal codeword string
MaxFlips == 3
\* largest number of bits flipped by inject_errors in message + ecc
MaxInjected == 2
\* largest index of the encoded array flipped before BchCoder.decode
MaxCoderPos == 5

\* the greatest extension degree m = order(2, n) of a generated code
MaxDegree == 8

\* the largest base and the largest modulus order is called with
MaxBase == 12

MaxModulus == 12

(***************************************************************************)
(* Python integer operators used by the sources.                           *)
(***************************************************************************)
RECURSIVE pow2_rec(_)
pow2_rec(e) == IF e = 0 THEN 1 ELSE 2 * pow2_rec(e - 1)

\* the powers of two that fit a machine integer of the model checker
pow2_table == [e \in 0..30 |-> pow2_rec(e)]

\* 1 << e
pow2(e) == pow2_table[e]

\* a << s
shl(a, s) == a * pow2(s)

\* a >> s
shr(a, s) == a \div pow2(s)

\* (a >> i) & 1
bit(a, i) == (a \div pow2(i)) % 2

RECURSIVE bit_length_rec(_)
bit_length_rec(a) == IF a = 0 THEN 0 ELSE 1 + bit_length_rec(a \div 2)

\* bit_length of every byte value
bit_length_table == [a \in 0..255 |-> bit_length_rec(a)]

RECURSIVE bit_length(_)
\* int.bit_length()
bit_length(a) == IF a < 256 THEN bit_length_table[a] ELSE 8 + bit_length(a \div 256)

\* the bitwise operators on two 4-bit digits, bit by bit
nibble_op(a, b, f(_, _)) ==
  f(a % 2, b % 2) + 2 * f((a \div 2) % 2, (b \div 2) % 2)
  + 4 * f((a \div 4) % 2, (b \div 4) % 2) + 8 * f(a \div 8, b \div 8)

xor_table == [a \in 0..15 |-> [b \in 0..15 |-> nibble_op(a, b, LAMBDA u, v : (u + v) % 2)]]

and_table == [a \in 0..15 |-> [b \in 0..15 |-> nibble_op(a, b, LAMBDA u, v : u * v)]]

or_table == [a \in 0..15 |-> [b \in 0..15 |-> nibble_op(a, b, LAMBDA u, v : u + v - u * v)]]

RECURSIVE xor(_, _)
\* a ^ b
xor(a, b) ==
  IF a = 0 THEN b
  ELSE IF b = 0 THEN a
  ELSE xor_table[a % 16][b % 16] + 16 * xor(a \div 16, b \div 16)

RECURSIVE band(_, _)
\* a & b
band(a, b) ==
  IF a = 0 \/ b = 0 THEN 0
  ELSE and_table[a % 16][b % 16] + 16 * band(a \div 16, b \div 16)

RECURSIVE bor(_, _)
\* a | b
bor(a, b) ==
  IF a = 0 THEN b
  ELSE IF b = 0 THEN a
  ELSE or_table[a % 16][b % 16] + 16 * bor(a \div 16, b \div 16)

\* the value None
None == "None"

\* binary digit strings of length len
BitStrings(len) == [1..len -> {0, 1}]

RECURSIVE int2(_)
\* int(s, 2) for a string of binary digits
int2(s) == IF Len(s) = 0 THEN 0 ELSE 2 * int2(SubSeq(s, 1, Len(s) - 1)) + s[Len(s)]

RECURSIVE bin(_)
\* bin(v)[2:] : the binary digits of v without leading zeros ("0" for 0)
bin(v) == IF v < 2 THEN <<v>> ELSE Append(bin(v \div 2), v % 2)

RECURSIVE zfill(_, _)
\* str.zfill(width)
zfill(s, width) == IF Len(s) >= width THEN s ELSE zfill(<<0>> \o s, width)

(***************************************************************************)
(* api/bch/bch_terminal_implementation.py                                  *)
(***************************************************************************)
RECURSIVE poly_mul_loop(_, _, _)
poly_mul_loop(a, b, result) ==
  IF b = 0 THEN result
  ELSE poly_mul_loop(a * 2, b \div 2, IF b % 2 = 1 THEN xor(result, a) ELSE result)

\* poly_mul(a, b): carry-less product
poly_mul(a, b) == poly_mul_loop(a, b, 0)

RECURSIVE poly_div_loop(_, _, _)
poly_div_loop(dividend, divisor, quotient) ==
  LET deg_dividend == bit_length(dividend) - 1
      deg_divisor == bit_length(divisor) - 1
  IN IF deg_dividend >= deg_divisor /\ dividend # 0
     THEN LET shift == deg_dividend - deg_divisor
          IN poly_div_loop(xor(dividend, shl(divisor, shift)), divisor,
                           xor(quotient, pow2(shift)))
     ELSE <<quotient, dividend>>

\* poly_div(dividend, divisor) = <<quotient, remainder>>
poly_div(dividend, divisor) == poly_div_loop(dividend, divisor, 0)

\* p = 0b10011 in gf16_generate_tables
gf16_p == 19

RECURSIVE gf16_powers_mut(_)
\* gf16_powers with the reduction applied one degree too late
gf16_powers_mut(i) ==
  IF i = 0 THEN 1
  ELSE LET x2 == gf16_powers_mut(i - 1) * 2
       IN IF bit(x2, 5) = 1 THEN xor(x2, gf16_p * 2) ELSE x2

RECURSIVE gf16_powers(_)
\* the value of x at the start of iteration i of the first loop
gf16_powers(i) ==
  IF i = 0 THEN 1
  ELSE LET x2 == gf16_powers(i - 1) * 2
       IN IF bit(x2, 4) = 1 THEN xor(x2, gf16_p) ELSE x2

\* the 15 values written by the first loop of gf16_generate_tables
gf16_cycle == [i \in 0..14 |-> gf16_powers(i)]

\* exp_table returned by gf16_generate_tables (indices 0..29)
exp_table == [i \in 0..29 |-> IF i < 15 THEN gf16_cycle[i] ELSE gf16_cycle[i - 15]]

\* log_table returned by gf16_generate_tables (indices 0..15); the last
\* write to an entry wins, entries never written keep 0
log_table ==
  [v \in 0..15 |->
     LET hits == {i \in 0..14 : gf16_cycle[i] = v}
     IN IF hits = {} THEN 0 ELSE CHOOSE i \in hits : \A j \in hits : j <= i]

gf16_add(a, b) == xor(a, b)

\* log_result of gf16_mul reduced modulo 16 instead of 15
log_result_mut(a, b) == (log_table[a] + log_table[b]) % 16

\* log_result of gf16_mul: the index at which it reads exp_table
log_result(a, b) == (log_table[a] + log_table[b]) % 15

gf16_mul(a, b) ==
  IF a = 0 \/ b = 0 THEN 0
  ELSE exp_table[log_result(a, b)]

\* gf16_inv with the logarithm subtracted from 14 instead of 15
gf16_inv_mut(a) ==
  IF a = 0 THEN -1
  ELSE exp_table[(14 - log_table[a]) % 15]

\* log_inv of gf16_inv: the index at which it reads exp_table
log_inv(a) == (15 - log_table[a]) % 15

\* gf16_inv(a); -1 stands for the ZeroDivisionError raised for a = 0
gf16_inv(a) ==
  IF a = 0 THEN -1
  ELSE exp_table[log_inv(a)]

\* codeword_to_bits: a Python list, index j of the list is j + 1 here
codeword_to_bits(codeword_int, n) == [j \in 1..n |-> bit(codeword_int, n - j)]

RECURSIVE syndrome_sum(_, _, _)
\* the inner loop of compute_syndromes for syndrome i, from index j on
syndrome_sum(codeword_bits, i, j) ==
  IF j >= Len(codeword_bits) THEN 0
  ELSE LET rest == syndrome_sum(codeword_bits, i, j + 1)
       IN IF codeword_bits[j + 1] # 0
          THEN gf16_add(rest, exp_table[(i * j) % 15])
          ELSE rest

\* compute_syndromes: <<S1, S2, S3, S4>>
compute_syndromes(codeword_bits) == [i \in 1..4 |-> syndrome_sum(codeword_bits, i, 0)]

\* solve_error_locator: <<1, sigma1, sigma2>>, or the empty list for None
solve_error_locator(syndromes) ==
  LET S1 == syndromes[1]
      S2 == syndromes[2]
      S3 == syndromes[3]
      S4 == syndromes[4]
      D == gf16_add(gf16_mul(S1, S3), gf16_mul(S2, S2))
  IN IF D = 0 THEN <<>>
     ELSE LET inv_D == gf16_inv(D)
              N1 == gf16_add(gf16_mul(S3, S3), gf16_mul(S2, S4))
              N2 == gf16_add(gf16_mul(S1, S4), gf16_mul(S2, S3))
          IN <<1, gf16_mul(N1, inv_D), gf16_mul(N2, inv_D)>>

\* sigma(alpha^-i) as evaluated in the loop body of chien_search
chien_eval(error_locator_poly, i) ==
  LET inv_alpha_i == exp_table[(15 - i) % 15]
      term1 == gf16_mul(error_locator_poly[1], gf16_mul(inv_alpha_i, inv_alpha_i))
      term2 == gf16_mul(error_locator_poly[2], inv_alpha_i)
      term3 == error_locator_poly[3]
  IN gf16_add(term1, gf16_add(term2, term3))

RECURSIVE chien_loop(_, _)
chien_loop(error_locator_poly, i) ==
  IF i >= 15 THEN <<>>
  ELSE (IF chien_eval(error_locator_poly, i) = 0 THEN <<i>> ELSE <<>>)
       \o chien_loop(error_locator_poly, i + 1)

\* chien_search: the list of positions i in 0..14, ascending
chien_search(error_locator_poly) == chien_loop(error_locator_poly, 0)

\* g = 0b111010001 in encode
encode_g == 465

\* what encode leaves when it returns before computing a codeword
encode_failed(outcome) ==
  [outcome |-> outcome, m |-> 0, m_shifted |-> 0, remainder |-> 0, codeword |-> 0,
   codeword_str |-> <<>>]

\* encode with the remainder taken of the message before the shift
encode_mut(n, k, message) ==
  IF n # 15 \/ k # 7 THEN encode_failed("unsupported")
  ELSE IF Len(message) # k THEN encode_failed("bad_length")
  ELSE LET m == int2(message)
           m_shifted == shl(m, n - k)
           remainder == poly_div(m, encode_g)[2]
           codeword == m_shifted + remainder
       IN [outcome |-> "encoded", m |-> m, m_shifted |-> m_shifted,
           remainder |-> remainder, codeword |-> codeword,
           codeword_str |-> zfill(bin(codeword), n)]

\* encode(n, k, message): the values it computes and prints, as a record
encode(n, k, message) ==
  IF n # 15 \/ k # 7 THEN encode_failed("unsupported")
  ELSE IF Len(message) # k THEN encode_failed("bad_length")
  ELSE LET m == int2(message)
           m_shifted == shl(m, n - k)
           remainder == poly_div(m_shifted, encode_g)[2]
           codeword == m_shifted + remainder
       IN [outcome |-> "encoded", m |-> m, m_shifted |-> m_shifted,
           remainder |-> remainder, codeword |-> codeword,
           codeword_str |-> zfill(bin(codeword), n)]

\* corrected_codeword_bits after the correction loop of decode
flip_positions(codeword_bits, error_positions) ==
  [j \in 1..Len(codeword_bits) |->
     IF Cardinality({p \in 1..Len(error_positions) : error_positions[p] + 1 = j}) % 2 = 1
     THEN 1 - codeword_bits[j] ELSE codeword_bits[j]]

\* what decode leaves when it returns without a decoded message; a list
\* that was not computed is empty
decode_failed(outcome, syndromes, locator, error_positions) ==
  [outcome |-> outcome, syndromes |-> syndromes, locator |-> locator,
   error_positions |-> error_positions, corrected |-> <<>>, message_str |-> <<>>]

\* decode(n, k, codeword_str): the values it computes and prints, as a
\* record
decode(n, k, codeword_str) ==
  IF n # 15 \/ k # 7 THEN decode_failed("unsupported", <<>>, <<>>, <<>>)
  ELSE IF Len(codeword_str) # n THEN decode_failed("bad_length", <<>>, <<>>, <<>>)
  ELSE LET codeword_int == int2(codeword_str)
           codeword_bits == codeword_to_bits(codeword_int, n)
           syndromes == compute_syndromes(codeword_bits)
       IN IF \A i \in 1..4 : syndromes[i] = 0
          THEN [outcome |-> "no_errors", syndromes |-> syndromes, locator |-> <<>>,
                error_positions |-> <<>>, corrected |-> codeword_bits,
                message_str |-> SubSeq(codeword_bits, 1, k)]
          ELSE LET error_locator_poly == solve_error_locator(syndromes)
               IN IF error_locator_poly = <<>>
                  THEN decode_failed("uncorrectable", syndromes, <<>>, <<>>)
                  ELSE LET error_positions == chien_search(error_locator_poly)
                       IN IF Len(error_positions) > 2
                          THEN decode_failed("uncorrectable", syndromes,
                                             error_locator_poly, error_positions)
                          ELSE LET corrected == flip_positions(codeword_bits, error_positions)
                               IN [outcome |-> "corrected", syndromes |-> syndromes,
                                   locator |-> error_locator_poly,
                                   error_positions |-> error_positions,
                                   corrected |-> corrected,
                                   message_str |-> SubSeq(corrected, 1, k)]

(***************************************************************************)
(* bch_encoder_decoder.py: CustomBCH                                       *)
(***************************************************************************)
\* s[-e:] for a bytearray s
slice_last(s, e) == IF e = 0 \/ e >= Len(s) THEN s ELSE SubSeq(s, Len(s) - e + 1, Len(s))

\* s[:-e] for a bytearray s
slice_but_last(s, e) == IF e = 0 \/ e >= Len(s) THEN <<>> ELSE SubSeq(s, 1, Len(s) - e)

\* CustomBCH.__init__(t, m): the attributes of the new object, or the
\* exception it raises
CustomBCH(t, m) ==
  IF m = 4 /\ t \in {1, 2}
  THEN LET n == shl(1, m) - 1
           k == IF t = 1 THEN 11 ELSE 7
           generator == IF t = 1 THEN 19 ELSE 439
           ecc_bits == n - k
       IN [m |-> m, t |-> t, n |-> n, k |-> k, generator |-> generator,
           ecc_bits |-> ecc_bits, ecc_bytes |-> (ecc_bits + 7) \div 8,
           errloc |-> <<>>]
  ELSE "NotImplementedError"

RECURSIVE bytes_to_bits_loop(_, _, _, _)
\* the two nested loops of _bytes_to_bits, idx counting the bits visited
bytes_to_bits_loop(data, idx, val, bits_needed) ==
  IF bits_needed = 0 \/ idx >= 8 * Len(data)
  THEN shl(val, bits_needed)
  ELSE LET bit_val == bit(data[(idx \div 8) + 1], 7 - (idx % 8))
       IN bytes_to_bits_loop(data, idx + 1, bor(shl(val, 1), bit_val), bits_needed - 1)

_bytes_to_bits(data, length_bits) == bytes_to_bits_loop(data, 0, 0, length_bits)

_bits_to_bytes(bits_int, length_bits) ==
  LET byte_len == (length_bits + 7) \div 8
  IN [i \in 1..byte_len |-> band(shr(bits_int, 8 * (byte_len - i)), 255)]

RECURSIVE bytes_to_int_loop(_, _, _)
bytes_to_int_loop(data, i, val) ==
  IF i > Len(data) THEN val
  ELSE bytes_to_int_loop(data, i + 1, bor(shl(val, 8), data[i]))

_bytes_to_int(data, length_bits) ==
  band(bytes_to_int_loop(data, 1, 0), shl(1, length_bits) - 1)

RECURSIVE _poly_mod(_, _)
_poly_mod(dividend, generator) ==
  LET shift == bit_length(dividend) - bit_length(generator)
  IN IF shift >= 0
     THEN _poly_mod(xor(dividend, shl(generator, shift)), generator)
     ELSE dividend

\* the n-bit codeword integer assembled by CustomBCH.encode before it is
\* converted to bytes
CustomBCH_codeword(self, data) ==
  LET data_bits == _bytes_to_bits(data, self.k)
      codeword == shl(data_bits, self.ecc_bits)
      remainder == _poly_mod(codeword, self.generator)
  IN bor(codeword, remainder)

\* CustomBCH.encode(data): the ecc bytes, or the exception raised
CustomBCH_encode(self, data) ==
  IF _bytes_to_bits(data, self.k) >= shl(1, self.k) THEN "ValueError"
  ELSE slice_last(_bits_to_bytes(CustomBCH_codeword(self, data), self.n), self.ecc_bytes)

RECURSIVE trial_flips_mut(_, _, _, _)
\* trial_flips with the loop stopping one position early
trial_flips_mut(self, codeword_bits, from, limit) ==
  IF from >= self.n - 1 \/ limit = 0 THEN <<>>
  ELSE IF _poly_mod(xor(codeword_bits, shl(1, from)), self.generator) = 0
       THEN <<from>> \o trial_flips_mut(self, codeword_bits, from + 1, limit - 1)
       ELSE trial_flips_mut(self, codeword_bits, from + 1, limit)

RECURSIVE trial_flips(_, _, _, _)
\* the positions bit_pos in from..self.n-1, ascending, whose flip clears
\* the syndrome, cut after limit positions (the loops of CustomBCH.decode)
trial_flips(self, codeword_bits, from, limit) ==
  IF from >= self.n \/ limit = 0 THEN <<>>
  ELSE IF _poly_mod(xor(codeword_bits, shl(1, from)), self.generator) = 0
       THEN <<from>> \o trial_flips(self, codeword_bits, from + 1, limit - 1)
       ELSE trial_flips(self, codeword_bits, from + 1, limit)

\* CustomBCH.decode(data, recv_ecc): the value returned and self.errloc
\* after the call
CustomBCH_decode(self, data, recv_ecc) ==
  LET codeword_bits == _bytes_to_int(data \o recv_ecc, self.n)
      syndrome == _poly_mod(codeword_bits, self.generator)
  IN IF syndrome = 0 THEN [nerr |-> 0, errloc |-> <<>>]
     ELSE IF self.t = 1
          THEN LET found == trial_flips(self, codeword_bits, 0, 1)
               IN IF Len(found) = 1 THEN [nerr |-> 1, errloc |-> found]
                  ELSE [nerr |-> -1, errloc |-> self.errloc]
          ELSE LET error_positions == trial_flips(self, codeword_bits, 0, self.t)
               IN IF Len(error_positions) = self.t
                  THEN [nerr |-> self.t, errloc |-> error_positions]
                  ELSE [nerr |-> -1, errloc |-> self.errloc]

RECURSIVE correct_loop(_, _, _)
\* the loop of CustomBCH.correct over self.errloc
correct_loop(codeword, errloc, i) ==
  IF i > Len(errloc) THEN codeword
  ELSE LET byte_index == errloc[i] \div 8
           bit_index == errloc[i] % 8
       IN correct_loop([codeword EXCEPT ![byte_index + 1] = xor(@, shl(1, 7 - bit_index))],
                       errloc, i + 1)

\* CustomBCH.correct(data, ecc) = <<corrected_data, corrected_ecc>>
CustomBCH_correct(self, data, ecc) ==
  IF self.errloc = <<>> THEN <<data, ecc>>
  ELSE LET codeword == correct_loop(data \o ecc, self.errloc, 1)
       IN <<SubSeq(codeword, 1, Len(data)), SubSeq(codeword, Len(data) + 1, Len(codeword))>>

\* bitflip(data, bit) on a bytearray
bitflip(data, b) == [data EXCEPT ![(b \div 8) + 1] = xor(@, shl(1, b % 8))]

\* encode_message(bch, data)
encode_message(self, data) == data \o CustomBCH_encode(self, data)

RECURSIVE inject_loop(_, _, _)
inject_loop(data, error_positions, i) ==
  IF i > Len(error_positions) THEN data
  ELSE inject_loop(bitflip(data, error_positions[i]), error_positions, i + 1)

\* inject_errors(data, specific_bits=...) = <<data_with_errors, error_positions>>
inject_errors(data, specific_bits) == <<inject_loop(data, specific_bits, 1), specific_bits>>

\* decode_and_correct(bch, corrupted_data): the pair returned (two empty
\* lists with nerr = -1 for the pair None, None) and the attribute errloc
\* of bch after the call
decode_and_correct(self, corrupted_data) ==
  LET data == slice_but_last(corrupted_data, self.ecc_bytes)
      recv_ecc == slice_last(corrupted_data, self.ecc_bytes)
      dec == CustomBCH_decode(self, data, recv_ecc)
      self2 == [self EXCEPT !.errloc = dec.errloc]
  IN IF dec.nerr >= 0
     THEN LET corrected == CustomBCH_correct(self2, data, recv_ecc)
          IN [nerr |-> dec.nerr, codeword |-> corrected[1] \o corrected[2],
              corrected_bits |-> self2.errloc, errloc |-> self2.errloc]
     ELSE [nerr |-> dec.nerr, codeword |-> <<>>, corrected_bits |-> <<>>,
           errloc |-> self2.errloc]

(***************************************************************************)
(* api/bch/utils.py and api/bch/bch.py.  A sympy polynomial in x over      *)
(* GF(2) is the integer whose bit i is the coefficient of x^i; a           *)
(* polynomial in alpha with coefficients modulo 2 is the set of the        *)
(* exponents whose coefficient is 1.                                       *)
(***************************************************************************)
\* the greatest element of a non-empty set of integers
set_max(S) == CHOOSE e \in S : \A f \in S : f <= e

\* Poly(coeffs, x, domain=GF(2)) for a list of coefficients, highest first
Poly_x(coeffs) == int2([j \in 1..Len(coeffs) |-> coeffs[j] % 2])

\* Poly.all_coeffs(): highest degree first, [0] for the zero polynomial
all_coeffs(poly) == bin(poly)

\* the sum of two polynomials in alpha, coefficients modulo 2
alpha_add(A, B) == (A \ B) \cup (B \ A)

\* the product of a polynomial in alpha by alpha ** e
alpha_shift(A, e) == {a + e : a \in A}

RECURSIVE alpha_mod(_, _)
\* Poly(c, alpha, domain=GF(2)) % irr_poly
alpha_mod(A, irr) ==
  IF A = {} \/ set_max(A) < set_max(irr) THEN A
  ELSE alpha_mod(alpha_add(A, alpha_shift(irr, set_max(A) - set_max(irr))), irr)

\* the product of two polynomials of GF(2)[x]
gf2_mul(f, g) == poly_mul_loop(f, g, 0)

RECURSIVE gf2_rem(_, _)
\* f % g in GF(2)[x], g nonzero
gf2_rem(f, g) ==
  LET shift == bit_length(f) - bit_length(g)
  IN IF shift >= 0 THEN gf2_rem(xor(f, shl(g, shift)), g) ELSE f

RECURSIVE gf2_quo(_, _)
\* the quotient of f by g in GF(2)[x], g nonzero
gf2_quo(f, g) ==
  LET shift == bit_length(f) - bit_length(g)
  IN IF shift >= 0 THEN pow2(shift) + gf2_quo(xor(f, shl(g, shift)), g) ELSE 0

RECURSIVE gf2_gcd(_, _)
gf2_gcd(f, g) == IF g = 0 THEN f ELSE gf2_gcd(g, gf2_rem(f, g))

\* sympy lcm(f, g).trunc(2) for nonzero polynomials over GF(2)
gf2_lcm(f, g) == gf2_quo(gf2_mul(f, g), gf2_gcd(f, g))

\* sympy gf_irreducible_p(coeffs, 2, ZZ): no factor of lower positive degree
gf_irreducible_p(f) ==
  /\ f >= 2
  /\ \A h \in 2..(f - 1) : bit_length(h) = bit_length(f) \/ gf2_rem(f, h) # 0

\* the irreducible polynomials of degree 1 to MaxDegree, computed once
irreducible_table == {f \in 2..(pow2(MaxDegree + 1) - 1) : gf_irreducible_p(f)}

\* the values sympy gf_irreducible(m, 2, ZZ) can return: the irreducible
\* polynomials of degree m
gf_irreducible(m) == {f \in irreducible_table : bit_length(f) = m + 1}

\* the exponents of the nonzero coefficients of a polynomial of GF(2)[alpha]
\* given as an integer
exponents(f) == {e \in 0..30 : e < bit_length(f) /\ bit(f, e) = 1}

RECURSIVE order_loop(_, _, _, _)
order_loop(x, p, tx, i) ==
  IF i >= p THEN 0
  ELSE IF tx = 1 THEN i + 1
  ELSE order_loop(x, p, (tx * x) % p, i + 1)

\* utils.order(x, p); 0 stands for the return of None
order(x, p) == order_loop(x, p, x, 0)

RECURSIVE power_residues(_, _)
\* the list of alpha ** i % irr for i = 1..n, each obtained from the one
\* before by a multiplication by alpha
power_residues(n, irr) ==
  IF n = 0 THEN <<>>
  ELSE LET before == power_residues(n - 1, irr)
       IN Append(before,
                 alpha_mod(IF n = 1 THEN {1} ELSE alpha_shift(before[n - 1], 1), irr))

\* utils.power_dict(n, irr, 2): the dictionary from the coefficients of
\* alpha ** i % irr to the last i in 1..n that produced them
power_dict(n, irr) ==
  LET residues == power_residues(n, irr)
      keys == {residues[i] : i \in 1..n}
  IN [key \in keys |-> set_max({i \in 1..n : residues[i] = key})]

\* len(d) for a dictionary
dict_len(d) == Cardinality(DOMAIN d)

\* poly * Poly(x - alpha ** ti, x): the coefficients, highest first, each a
\* polynomial in alpha
times_root(poly, ti) ==
  [j \in 1..(Len(poly) + 1) |->
     alpha_add(IF j <= Len(poly) THEN poly[j] ELSE {},
               IF j >= 2 THEN alpha_shift(poly[j - 1], ti) ELSE {})]

\* a call that returned val
returned(val) == [exc |-> "", val |-> val]

\* a call that raised the exception exc
raised(exc) == [exc |-> exc, val |-> 0]

\* the return statement of minimal_poly without the test of the degrees
minimal_poly_result_mut(poly, irr) ==
  LET polys == [j \in 1..Len(poly) |-> alpha_mod(poly[j], irr)]
  IN returned(Poly_x([j \in 1..Len(polys) |-> IF 0 \in polys[j] THEN 1 ELSE 0]))

\* the return statement of minimal_poly: every coefficient reduced modulo
\* irr_poly must have degree 0 or be zero
minimal_poly_result(poly, irr) ==
  LET polys == [j \in 1..Len(poly) |-> alpha_mod(poly[j], irr)]
  IN IF \E j \in 1..Len(polys) : polys[j] # {} /\ set_max(polys[j]) > 0
     THEN raised("Exception")
     ELSE returned(Poly_x([j \in 1..Len(polys) |-> IF 0 \in polys[j] THEN 1 ELSE 0]))

RECURSIVE minimal_poly_loop(_, _, _, _, _, _)
minimal_poly_loop(n, irr, ti, checked, poly, k) ==
  IF k >= n THEN raised("None")
  ELSE LET ti2 == (ti * 2) % n
       IN IF ti2 \in checked THEN minimal_poly_result(poly, irr)
          ELSE minimal_poly_loop(n, irr, ti2, checked \cup {ti2},
                                 times_root(poly, ti2), k + 1)

\* utils.minimal_poly(i, n, 2, irr_poly): the polynomial of GF(2)[x]
\* returned or the exception raised (checked[ti] fails for i >= n; "None"
\* stands for the return of None after the loop)
minimal_poly(i, n, irr) ==
  IF i >= n THEN raised("IndexError")
  ELSE minimal_poly_loop(n, irr, i, {i}, <<{0}, {i}>>, 0)

RECURSIVE gen_g_loop(_, _, _, _, _)
\* the for loop of BchCodeGenerator.gen from root exponent i on; g_poly is
\* 0 while it is still None
gen_g_loop(n, irr, i, last, g_poly) ==
  IF i > last THEN returned(g_poly)
  ELSE LET min_poly == minimal_poly(i, n, irr)
       IN IF min_poly.exc = "None" THEN raised("TypeError")
          ELSE IF min_poly.exc # "" THEN min_poly
          ELSE gen_g_loop(n, irr, i + 1, last,
                          IF g_poly = 0 THEN min_poly.val
                          ELSE gf2_lcm(g_poly, min_poly.val))

\* g_poly computed by BchCodeGenerator.gen once irr_poly is accepted; with
\* an empty range of exponents g_poly stays None and set_domain fails
gen_g(n, b, d, irr) ==
  LET g_poly == gen_g_loop(n, irr, b, b + d - 2, 0)
  IN IF g_poly.exc = "" /\ g_poly.val = 0 THEN raised("AttributeError") ELSE g_poly

\* quotient_size for a candidate irr_poly
quotient_size_of(n, irr) == dict_len(power_dict(n, exponents(irr)))

\* BchCoder.__init__(n, b, d, r, g)
BchCoder(n, b, d, r, g) == [n |-> n, b |-> b, d |-> d, r |-> r, g |-> g, k |-> n - b]

\* BchCoder.encode(message_poly): the numpy array of coefficients
BchCoder_encode(self, message_poly) == all_coeffs(gf2_mul(message_poly, self.g))

\* BchCoder.decode(received_poly): the array returned or the exception
BchCoder_decode(self, received_poly) ==
  IF gf2_rem(received_poly, self.g) = 0 THEN returned(all_coeffs(received_poly))
  ELSE raised("Exception")

(***************************************************************************)
(* State of a run of the terminal codec.                                   *)
(***************************************************************************)
VARIABLES
  t_pc,        \* "idle", "encoded", "received", "decoded"
  t_message,   \* the message given to encode, empty before
  t_encoded,   \* what encode computed and printed
  t_flipped,   \* the set of string indices flipped after encode
  t_received,  \* the string handed to decode
  t_out        \* what decode computed and printed

t_vars == <<t_pc, t_message, t_encoded, t_flipped, t_received, t_out>>

(***************************************************************************)
(* State of a run of bch_encoder_decoder.py with a CustomBCH object.       *)
(***************************************************************************)
VARIABLES
  bch,            \* the attributes of the CustomBCH object, or None
  c_pc,           \* "start", "ready", "encoded", "corrupted", "done",
                  \* "received", "decoded"
  c_message,      \* the message bytes given to run_test
  c_codeword_int, \* the integer codeword inside CustomBCH.encode
  c_codeword,     \* encode_message(bch, message)
  c_corrupted,    \* the bytes after inject_errors
  c_injected,     \* the set of injected bit positions
  c_result,       \* what decode_and_correct returned
  c_data,         \* the arguments of a direct call of CustomBCH.decode
  c_recv_ecc,
  c_nerr          \* the value returned by that call

c_vars == <<bch, c_pc, c_message, c_codeword_int, c_codeword, c_corrupted,
            c_injected, c_result, c_data, c_recv_ecc, c_nerr>>

(***************************************************************************)
(* State of a run of api/bch/test.py: BchCodeGenerator, then BchCoder.     *)
(***************************************************************************)
VARIABLES
  g_pc,           \* "start", "constructed", "searching", "generated",
                  \* "coder", "encoded", "received", "decoded"
  code_generator, \* the attributes of the BchCodeGenerator object (all 0
                  \* before it is constructed)
  irr_poly,       \* the local irr_poly of gen
  quotient_size,  \* the local quotient_size of gen
  g_result,       \* g_poly returned by gen, or the exception it raised
  coder,          \* the attributes of the BchCoder object
  b_message,      \* message_coeffs
  b_encoded,      \* the array returned by coder.encode
  b_flipped,      \* error_positions
  b_received,     \* the array received, or the exception of the flip
  b_decoded       \* what coder.decode returned or raised

g_vars == <<g_pc, code_generator, irr_poly, quotient_size, g_result, coder,
            b_message, b_encoded, b_flipped, b_received, b_decoded>>

(***************************************************************************)
(* State of direct calls of the library functions: the GF(16) arithmetic   *)
(* of the terminal codec and utils.order.                                  *)
(***************************************************************************)
VARIABLES
  f_pc,       \* "start", "tables", "computed"
  f_tables,   \* the pair returned by gf16_generate_tables
  f_args,     \* the field elements <<a, b>> the functions are called with
  f_out,      \* the values the GF(16) functions returned for them
  o_pc,       \* "start", "returned"
  o_args,     \* the arguments <<x, p>> of utils.order
  o_result,   \* what order returned (0 for None)
  mp_pc,      \* "start", "returned"
  mp_args,    \* <<i, n, irr_poly>> minimal_poly is called with
  mp_result   \* what minimal_poly returned or raised

l_vars == <<f_pc, f_tables, f_args, f_out, o_pc, o_args, o_result,
            mp_pc, mp_args, mp_result>>

(***************************************************************************)
(* State of two callers of decode_and_correct that share one CustomBCH     *)
(* object.                                                                 *)
(***************************************************************************)
VARIABLES
  k_bch,        \* the attributes of the shared CustomBCH object, or None
  k_pc,         \* per caller: "idle", "ready", "called", "decoded", "returned"
  k_corrupted,  \* per caller: the argument corrupted_data
  k_nerr,       \* per caller: the local nerr
  k_result      \* per caller: the pair returned

k_vars == <<k_bch, k_pc, k_corrupted, k_nerr, k_result>>

\* the script that is run: "terminal" for bch_terminal_implementation.py,
\* "custom" for bch_encoder_decoder.py, "coder" for api/bch/test.py,
\* "field" and "order" for direct calls of the library functions,
\* "callers" for two callers sharing a CustomBCH object
VARIABLE script

vars == <<script, t_pc, t_message, t_encoded, t_flipped, t_received, t_out,
          bch, c_pc, c_message, c_codeword_int, c_codeword, c_corrupted,
          c_injected, c_result, c_data, c_recv_ecc, c_nerr,
          g_pc, code_generator, irr_poly, quotient_size, g_result, coder,
          b_message, b_encoded, b_flipped, b_received, b_decoded,
          f_pc, f_tables, f_args, f_out, o_pc, o_args, o_result,
          mp_pc, mp_args, mp_result,
          k_bch, k_pc, k_corrupted, k_nerr, k_result>>

TInit ==
  /\ t_pc = "idle"
  /\ t_message = <<>>
  /\ t_encoded = None
  /\ t_flipped = {}
  /\ t_received = <<>>
  /\ t_out = None

CInit ==
  /\ bch = None
  /\ c_pc = "start"
  /\ c_message = <<>>
  /\ c_codeword_int = 0
  /\ c_codeword = <<>>
  /\ c_corrupted = <<>>
  /\ c_injected = {}
  /\ c_result = None
  /\ c_data = <<>>
  /\ c_recv_ecc = <<>>
  /\ c_nerr = 0

GInit ==
  /\ g_pc = "start"
  /\ code_generator = [n |-> 0, b |-> 0, d |-> 0, q |-> 0, m |-> 0]
  /\ irr_poly = 0
  /\ quotient_size = 0
  /\ g_result = returned(0)
  /\ coder = None
  /\ b_message = <<>>
  /\ b_encoded = <<>>
  /\ b_flipped = {}
  /\ b_received = None
  /\ b_decoded = None

\* the two callers
Callers == {1, 2}

LInit ==
  /\ f_pc = "start"
  /\ f_tables = None
  /\ f_args = <<>>
  /\ f_out = None
  /\ o_pc = "start"
  /\ o_args = <<>>
  /\ o_result = 0
  /\ mp_pc = "start"
  /\ mp_args = <<>>
  /\ mp_result = returned(0)

KInit ==
  /\ k_bch = None
  /\ k_pc = [c \in Callers |-> "idle"]
  /\ k_corrupted = [c \in Callers |-> <<>>]
  /\ k_nerr = [c \in Callers |-> 0]
  /\ k_result = [c \in Callers |-> None]

Scripts == {"terminal", "custom", "coder", "field", "order", "callers", "minimal"}

Init == script \in Scripts /\ TInit /\ CInit /\ GInit /\ LInit /\ KInit

(***************************************************************************)
(* The terminal codec.                                                     *)
(***************************************************************************)
\* the indices of a 15-character codeword string
Positions15 == 0..14

RECURSIVE FlipSets(_, _)
\* the sets of at most w positions
FlipSets(positions, w) ==
  IF w = 0 THEN {{}}
  ELSE LET smaller == FlipSets(positions, w - 1)
       IN smaller \cup {E \cup {p} : E \in smaller, p \in positions}

\* the string s with the characters at the indices E flipped
flip_str(s, E) == [j \in 1..Len(s) |-> IF (j - 1) \in E THEN 1 - s[j] ELSE s[j]]

\* main, command encode
TEncode ==
  /\ script = "terminal"
  /\ t_pc = "idle"
  /\ \E message \in BitStrings(7) :
       /\ t_message' = message
       /\ t_encoded' = encode(15, 7, message)
  /\ t_pc' = "encoded"
  /\ UNCHANGED <<t_flipped, t_received, t_out>>
  /\ UNCHANGED <<script, c_vars, g_vars, l_vars, k_vars>>

\* the printed codeword is passed on, with the bits at E flipped
TTransmit ==
  /\ t_pc = "encoded"
  /\ \E E \in FlipSets(Positions15, MaxFlips) :
       /\ t_flipped' = E
       /\ t_received' = flip_str(t_encoded.codeword_str, E)
  /\ t_pc' = "received"
  /\ UNCHANGED <<t_message, t_encoded, t_out>>
  /\ UNCHANGED <<script, c_vars, g_vars, l_vars, k_vars>>

\* any 15-character binary string is given to decode
TInput ==
  /\ script = "terminal"
  /\ t_pc = "idle"
  /\ \E w \in 0..(pow2(15) - 1) : t_received' = zfill(bin(w), 15)
  /\ t_pc' = "received"
  /\ UNCHANGED <<t_message, t_encoded, t_flipped, t_out>>
  /\ UNCHANGED <<script, c_vars, g_vars, l_vars, k_vars>>

\* main, command decode
TDecode ==
  /\ t_pc = "received"
  /\ t_out' = decode(15, 7, t_received)
  /\ t_pc' = "decoded"
  /\ UNCHANGED <<t_message, t_encoded, t_flipped, t_received>>
  /\ UNCHANGED <<script, c_vars, g_vars, l_vars, k_vars>>

TNext == TEncode \/ TTransmit \/ TInput \/ TDecode

SpecTerminal == Init /\ [][TNext]_vars

(***************************************************************************)
(* bch_encoder_decoder.py, main with -m 4: CustomBCH and run_test.         *)
(***************************************************************************)
\* all byte values
Bytes == 0..255

\* message bytes tried by the runs that go on to inject errors
SampleBytes == {0, 1, 85, 128, 255}

\* the bytearrays of len bytes drawn from vals
ByteArrays(len, vals) == [1..len -> vals]

RECURSIVE sorted_list(_)
\* sorted(E) for a set of integers
sorted_list(E) ==
  IF E = {} THEN <<>>
  ELSE LET lo == CHOOSE e \in E : \A f \in E : e <= f
       IN <<lo>> \o sorted_list(E \ {lo})

\* bch = CustomBCH(t=args.t, m=4)
CNew ==
  /\ script = "custom"
  /\ c_pc = "start"
  /\ \E t \in {1, 2} : bch' = CustomBCH(t, 4)
  /\ c_pc' = "ready"
  /\ UNCHANGED <<c_message, c_codeword_int, c_codeword, c_corrupted, c_injected,
                 c_result, c_data, c_recv_ecc, c_nerr>>
  /\ UNCHANGED <<script, t_vars, g_vars, l_vars, k_vars>>

\* run_test: codeword = encode_message(bch, message), message of
\* max_data_bytes = (k + 7) // 8 bytes drawn from vals
CEncodeFrom(vals) ==
  /\ c_pc = "ready"
  /\ \E message \in ByteArrays((bch.k + 7) \div 8, vals) :
       /\ c_message' = message
       /\ c_codeword_int' = CustomBCH_codeword(bch, message)
       /\ c_codeword' = encode_message(bch, message)
  /\ c_pc' = "encoded"
  /\ UNCHANGED <<bch, c_corrupted, c_injected, c_result, c_data, c_recv_ecc, c_nerr>>
  /\ UNCHANGED <<script, t_vars, g_vars, l_vars, k_vars>>

CEncode == CEncodeFrom(SampleBytes)

\* run_test: inject_errors(codeword, num_errors, specific_bits), or the
\* codeword itself when num_errors is 0
CInject ==
  /\ c_pc = "encoded"
  /\ \E E \in FlipSets(0..(8 * Len(c_codeword) - 1), MaxInjected) :
       /\ c_injected' = E
       /\ c_corrupted' = IF E = {} THEN c_codeword
                         ELSE inject_errors(c_codeword, sorted_list(E))[1]
  /\ c_pc' = "corrupted"
  /\ UNCHANGED <<bch, c_message, c_codeword_int, c_codeword, c_result, c_data,
                 c_recv_ecc, c_nerr>>
  /\ UNCHANGED <<script, t_vars, g_vars, l_vars, k_vars>>

\* run_test: decode_and_correct(bch, corrupted_codeword)
CDecodeAndCorrect ==
  /\ c_pc = "corrupted"
  /\ LET r == decode_and_correct(bch, c_corrupted)
     IN /\ c_result' = [nerr |-> r.nerr, codeword |-> r.codeword,
                        corrected_bits |-> r.corrected_bits]
        /\ bch' = [bch EXCEPT !.errloc = r.errloc]
  /\ c_pc' = "done"
  /\ UNCHANGED <<c_message, c_codeword_int, c_codeword, c_corrupted, c_injected,
                 c_data, c_recv_ecc, c_nerr>>
  /\ UNCHANGED <<script, t_vars, g_vars, l_vars, k_vars>>

CNext == CNew \/ CEncode \/ CInject \/ CDecodeAndCorrect

\* the first data byte tried when CustomBCH.decode is called directly with
\* two data bytes
HighBytes == {255}

\* the data arguments tried: every value of the last byte
DataArrays(len) ==
  {d \in ByteArrays(len, Bytes) : \A i \in 1..(len - 1) : d[i] \in HighBytes}

\* a caller holds data and recv_ecc of the lengths decode_and_correct uses
CReceive ==
  /\ c_pc = "ready"
  /\ \E data \in DataArrays((bch.k + 7) \div 8), recv_ecc \in ByteArrays(bch.ecc_bytes, Bytes) :
       /\ c_data' = data
       /\ c_recv_ecc' = recv_ecc
  /\ c_pc' = "received"
  /\ UNCHANGED <<bch, c_message, c_codeword_int, c_codeword, c_corrupted,
                 c_injected, c_result, c_nerr>>
  /\ UNCHANGED <<script, t_vars, g_vars, l_vars, k_vars>>

\* nerr = bch.decode(data, recv_ecc)
CDecode ==
  /\ c_pc = "received"
  /\ LET dec == CustomBCH_decode(bch, c_data, c_recv_ecc)
     IN /\ c_nerr' = dec.nerr
        /\ bch' = [bch EXCEPT !.errloc = dec.errloc]
  /\ c_pc' = "decoded"
  /\ UNCHANGED <<c_message, c_codeword_int, c_codeword, c_corrupted, c_injected,
                 c_result, c_data, c_recv_ecc>>
  /\ UNCHANGED <<script, t_vars, g_vars, l_vars, k_vars>>

CDecodeNext == CNew \/ CReceive \/ CDecode

SpecCustomDecode == Init /\ [][CDecodeNext]_vars

\* run_test with every message of max_data_bytes bytes
CEncodeAll == CEncodeFrom(Bytes)

EncodeNext == TEncode \/ CNew \/ CEncodeAll

SpecEncode == Init /\ [][EncodeNext]_vars

SpecCustom == Init /\ [][CNext]_vars

(***************************************************************************)
(* api/bch/test.py: generate the code, build the coder, encode, flip,      *)
(* decode.                                                                 *)
(***************************************************************************)
\* the configurations <<n, b, d>> tried
GenConfigs ==
  {<<15, 1, 5>>, <<15, 7, 3>>, <<15, 1, 7>>, <<31, 1, 3>>, <<7, 1, 3>>, <<5, 1, 3>>,
   <<51, 1, 3>>, <<85, 1, 3>>, <<9, 1, 3>>}

\* the code lengths for which messages are encoded
CoderLengths == {15}

\* alpha ** m + alpha + 1, the first candidate of gen
default_irr(m) == pow2(m) + 2 + 1

\* the value a table, a set of pairs <<key, value>>, holds for a key
table_value(table, key) == (CHOOSE entry \in table : entry[1] = key)[2]

\* the candidates gen can test for the code length n: the first candidate
\* and the irreducible polynomials of degree m = order(2, n)
candidates(n) == gf_irreducible(order(2, n)) \cup {default_irr(order(2, n))}

\* the pairs of a configuration and a candidate of its code length
ConfigCandidates ==
  {cc \in {<<cfg, irr>> : cfg \in GenConfigs, irr \in irreducible_table \cup {default_irr(m) : m \in 1..MaxDegree}} :
     cc[2] \in candidates(cc[1][1])}

\* quotient_size of the first candidate for each configuration, computed
\* once
default_quotient_size ==
  {<<cfg, LET irr == default_irr(order(2, cfg[1]))
          IN IF gf_irreducible_p(irr) THEN quotient_size_of(cfg[1], irr) ELSE 0>> :
     cfg \in GenConfigs}

\* quotient_size of each candidate the while loop can draw, computed once
drawn_quotient_size ==
  {<<cc, quotient_size_of(cc[1][1], cc[2])>> :
     cc \in {dd \in ConfigCandidates : gf_irreducible_p(dd[2])}}

\* what the for loop of gen computes for each configuration and each
\* irr_poly the search can end with, computed once
gen_g_table ==
  {<<cc, gen_g(cc[1][1], cc[1][2], cc[1][3], exponents(cc[2]))>> : cc \in ConfigCandidates}

\* the configuration <<n, b, d>> of a BchCodeGenerator object
config_of(self) == <<self.n, self.b, self.d>>

\* code_generator = BchCodeGenerator(n, b, d)
GNew ==
  /\ script = "coder"
  /\ g_pc = "start"
  /\ g_pc' = "constructed"
  /\ \E cfg \in GenConfigs :
       code_generator' = [n |-> cfg[1], b |-> cfg[2], d |-> cfg[3], q |-> 2,
                          m |-> order(2, cfg[1])]
  /\ UNCHANGED <<irr_poly, quotient_size, g_result, coder, b_message, b_encoded,
                 b_flipped, b_received, b_decoded>>
  /\ UNCHANGED <<script, t_vars, c_vars, l_vars, k_vars>>

\* gen: the default candidate alpha ** m + alpha + 1 and its quotient_size
GGenStart ==
  /\ g_pc = "constructed"
  /\ irr_poly' = default_irr(code_generator.m)
  /\ quotient_size' = table_value(default_quotient_size, config_of(code_generator))
  /\ g_pc' = "searching"
  /\ UNCHANGED <<code_generator, g_result, coder, b_message, b_encoded,
                 b_flipped, b_received, b_decoded>>
  /\ UNCHANGED <<script, t_vars, c_vars, l_vars, k_vars>>

\* gen: one iteration of the while loop
GGenDraw ==
  /\ g_pc = "searching"
  /\ quotient_size < code_generator.n
  /\ \E irr \in gf_irreducible(code_generator.m) :
       /\ irr_poly' = irr
       /\ quotient_size' = table_value(drawn_quotient_size, <<config_of(code_generator), irr>>)
  /\ UNCHANGED <<g_pc, code_generator, g_result, coder, b_message, b_encoded,
                 b_flipped, b_received, b_decoded>>
  /\ UNCHANGED <<script, t_vars, c_vars, l_vars, k_vars>>

\* gen: the loop over the root exponents and the return
GGenFinish ==
  /\ g_pc = "searching"
  /\ quotient_size >= code_generator.n
  /\ g_pc' = "generated"
  /\ g_result' = table_value(gen_g_table, <<config_of(code_generator), irr_poly>>)
  /\ UNCHANGED <<code_generator, irr_poly, quotient_size, coder, b_message,
                 b_encoded, b_flipped, b_received, b_decoded>>
  /\ UNCHANGED <<script, t_vars, c_vars, l_vars, k_vars>>

\* coder = BchCoder(n, b, d, irr_poly, g_poly)
BNew ==
  /\ g_pc = "generated"
  /\ g_result.exc = ""
  /\ code_generator.n \in CoderLengths
  /\ coder' = BchCoder(code_generator.n, code_generator.b, code_generator.d,
                       irr_poly, g_result.val)
  /\ g_pc' = "coder"
  /\ UNCHANGED <<code_generator, irr_poly, quotient_size, g_result, b_message,
                 b_encoded, b_flipped, b_received, b_decoded>>
  /\ UNCHANGED <<script, t_vars, c_vars, l_vars, k_vars>>

\* encoded = coder.encode(Poly(message_coeffs, x, domain=GF(2)))
BEncode ==
  /\ g_pc = "coder"
  /\ \E message_coeffs \in BitStrings(coder.k) :
       /\ b_message' = message_coeffs
       /\ b_encoded' = BchCoder_encode(coder, Poly_x(message_coeffs))
  /\ g_pc' = "encoded"
  /\ UNCHANGED <<code_generator, irr_poly, quotient_size, g_result, coder,
                 b_flipped, b_received, b_decoded>>
  /\ UNCHANGED <<script, t_vars, c_vars, l_vars, k_vars>>

\* the error positions tried: none, or two distinct indices up to
\* MaxCoderPos (test.py uses 2 and 5)
CoderFlips ==
  {{}} \cup ({{p1, p2} : p1 \in 0..MaxCoderPos, p2 \in 0..MaxCoderPos}
           \ {{p} : p \in 0..MaxCoderPos})

\* received = encoded.copy(); received[pos] ^= 1 for each error position
BFlip ==
  /\ g_pc = "encoded"
  /\ \E E \in CoderFlips :
       /\ b_flipped' = E
       /\ b_received' = IF \E pos \in E : pos >= Len(b_encoded)
                         THEN raised("IndexError")
                         ELSE returned(flip_str(b_encoded, E))
  /\ g_pc' = "received"
  /\ UNCHANGED <<code_generator, irr_poly, quotient_size, g_result, coder,
                 b_message, b_encoded, b_decoded>>
  /\ UNCHANGED <<script, t_vars, c_vars, l_vars, k_vars>>

\* decoded_coeffs = coder.decode(Poly(received, x, domain=GF(2)))
BDecode ==
  /\ g_pc = "received"
  /\ b_received.exc = ""
  /\ b_decoded' = BchCoder_decode(coder, Poly_x(b_received.val))
  /\ g_pc' = "decoded"
  /\ UNCHANGED <<code_generator, irr_poly, quotient_size, g_result, coder,
                 b_message, b_encoded, b_flipped, b_received>>
  /\ UNCHANGED <<script, t_vars, c_vars, l_vars, k_vars>>

GNext == GNew \/ GGenStart \/ GGenDraw \/ GGenFinish \/ BNew \/ BEncode \/ BFlip \/ BDecode

SpecCoder == Init /\ [][GNext]_vars
(***************************************************************************)
(* Properties.                                                             *)
(***************************************************************************)
\* set(l) for a list l
list_set(l) == {l[i] : i \in 1..Len(l)}

\* decode printed a decoded message
decode_has_message(out) == out.outcome \in {"no_errors", "corrected"}

\* C1: terminal (15,7) round trip: the codeword string printed by
\* encode(15, 7, m), fed unchanged to decode(15, 7, .), is decoded to m.
C1_RoundTrip ==
  (t_pc = "decoded" /\ t_message # <<>> /\ t_flipped = {})
    => (decode_has_message(t_out) /\ t_out.message_str = t_message)

\* C2: terminal (15,7) error correction: after flipping one or two distinct
\* positions E of the codeword string of encode(15, 7, m), decode reports
\* exactly the positions E as corrected and prints m as decoded message.
C2_ErrorCorrection ==
  (t_pc = "decoded" /\ t_message # <<>> /\ Cardinality(t_flipped) \in {1, 2})
    => /\ t_out.outcome = "corrected"
       /\ list_set(t_out.error_positions) = t_flipped
       /\ t_out.message_str = t_message

\* C3: with the code of BchCodeGenerator(15, 1, 5).gen(), after two distinct
\* coefficients of the array returned by BchCoder.encode are flipped,
\* BchCoder.decode returns normally the original message coefficients.
C3_TwoErrorScenario ==
  (/\ g_pc = "decoded"
   /\ code_generator.n = 15 /\ code_generator.b = 1 /\ code_generator.d = 5
   /\ Cardinality(b_flipped) = 2)
    => (b_decoded.exc = "" /\ b_decoded.val = b_message)

\* C4: CustomBCH zero-error round trip: decode_and_correct applied to the
\* uncorrupted bytes of encode_message finds no errors: decode returns 0,
\* errloc is empty and the returned codeword bytes equal the encoded ones.
C4_ZeroErrorRoundTrip ==
  (c_pc = "done" /\ c_injected = {})
    => /\ c_result.nerr = 0
       /\ bch.errloc = <<>>
       /\ c_result.codeword = c_codeword

\* C5: CustomBCH end-to-end correction: with 1..t distinct bits of
\* message + ecc flipped by inject_errors, decode_and_correct returns the
\* uncorrupted codeword bytes and a list of corrected positions whose set
\* equals the injected set.
C5_EndToEndCorrection ==
  (c_pc = "done" /\ Cardinality(c_injected) >= 1 /\ Cardinality(c_injected) <= bch.t)
    => /\ c_result.nerr >= 0
       /\ c_result.codeword = c_codeword
       /\ list_set(c_result.corrected_bits) = c_injected

\* C6: every encoded codeword is divisible by the generator: the codeword
\* of the terminal encode leaves remainder 0 under poly_div by
\* 0b111010001, and the codeword integer assembled in CustomBCH.encode
\* leaves remainder 0 under _poly_mod by self.generator.
C6_Divisibility ==
  /\ t_pc = "encoded" =>
       /\ t_encoded.codeword = t_encoded.m_shifted + t_encoded.remainder
       /\ t_encoded.m_shifted = shl(int2(t_message), 8)
       /\ poly_div(t_encoded.codeword, encode_g)[2] = 0
  /\ c_pc = "encoded" => _poly_mod(c_codeword_int, bch.generator) = 0

\* C6 witness: CustomBCH(t=2).encode has assembled the codeword of the
\* message 0xAA, whose parity bits are not all zero
C6_Witness ==
  /\ c_pc = "encoded"
  /\ bch.t = 2
  /\ c_message = <<170>>
  /\ c_codeword_int = 85 * 256 + _poly_mod(85 * 256, 439)
  /\ c_codeword_int % 256 # 0

\* C7: BchCoder zero-error round trip: decode of the unmodified output of
\* encode(message) returns exactly the k message coefficients, not the
\* full codeword.
C7_CoderRoundTrip ==
  (g_pc = "decoded" /\ b_flipped = {})
    => (b_decoded.exc = "" /\ b_decoded.val = b_message)

\* C8: root-count check of the terminal decode: when the syndromes are not
\* all zero and solve_error_locator returns the degree-2 locator, a number
\* of Chien roots different from 2 makes decode declare the word
\* uncorrectable and print no decoded message.
C8_RootCountCheck ==
  (/\ t_pc = "decoded"
   /\ \E i \in 1..4 : t_out.syndromes[i] # 0
   /\ t_out.locator # <<>>
   /\ Len(t_out.error_positions) # 2)
    => (t_out.outcome = "uncorrectable" /\ t_out.message_str = <<>>)

\* C9: all-or-nothing correction of the terminal decode: either decode
\* reports uncorrectable and prints no message, or the corrected word it
\* extracts the message from has the four syndromes S1..S4 equal to zero.
C9_AllOrNothing ==
  t_pc = "decoded"
    => \/ t_out.outcome = "uncorrectable" /\ t_out.message_str = <<>>
       \/ /\ decode_has_message(t_out)
          /\ \A i \in 1..4 : compute_syndromes(t_out.corrected)[i] = 0

RECURSIVE bits_mask(_)
\* the integer with exactly the bits of E set
bits_mask(E) ==
  IF E = {} THEN 0
  ELSE LET e == CHOOSE f \in E : TRUE IN pow2(e) + bits_mask(E \ {e})

\* the error patterns of weight w on a 15-bit word
Weight(w) == {E \in FlipSets(Positions15, w) : Cardinality(E) = w}

Weight2 == Weight(2)

Weight3 == Weight(3)

\* the 15-bit words
Words15 == 0..(pow2(15) - 1)

\* the four syndromes of the 15-bit word w are zero
terminal_zero_syndrome(w) ==
  \A i \in 1..4 : compute_syndromes(codeword_to_bits(w, 15))[i] = 0

\* the terminal decode declares some zero-syndrome word with three flipped
\* bits uncorrectable
TerminalUncorrectableExists ==
  \E w \in Words15 :
    /\ decode(15, 7, zfill(bin(w), 15)).outcome = "uncorrectable"
    /\ \E E \in Weight3 : terminal_zero_syndrome(xor(w, bits_mask(E)))

\* what CustomBCH(t).decode returns for the 15-bit word w laid out in data
\* and recv_ecc as decode_and_correct splits it
custom_decode_word(t, w) ==
  LET self == CustomBCH(t, 4)
      bytes == _bits_to_bytes(w, 8 * (((self.k + 7) \div 8) + self.ecc_bytes))
  IN CustomBCH_decode(self, slice_but_last(bytes, self.ecc_bytes),
                      slice_last(bytes, self.ecc_bytes)).nerr

\* CustomBCH(t).decode returns -1 for some zero-syndrome word with t + 1
\* flipped bits
CustomUncorrectableExists(t) ==
  \E w \in Words15 :
    /\ custom_decode_word(t, w) = -1
    /\ \E E \in (IF t = 1 THEN Weight2 ELSE Weight3) :
         _poly_mod(xor(w, bits_mask(E)), CustomBCH(t, 4).generator) = 0

\* C10 as stated: each of the three decoders declares at least one
\* zero-syndrome word with an error pattern of weight t + 1 uncorrectable.
C10_Original ==
  (script = "custom" /\ c_pc = "start")
    => /\ TerminalUncorrectableExists
       /\ CustomUncorrectableExists(2)
       /\ CustomUncorrectableExists(1)

\* C10 amended: the terminal decode and CustomBCH with t = 2 each declare
\* at least one zero-syndrome word with three flipped bits uncorrectable;
\* CustomBCH with t = 1 never does: its decode returns 0 or 1 for every
\* word, never -1.
C10_UncorrectableDetection ==
  /\ (script = "custom" /\ c_pc = "start")
       => (TerminalUncorrectableExists /\ CustomUncorrectableExists(2))
  /\ (c_pc = "decoded" /\ bch.t = 1) => c_nerr \in {0, 1}

\* C10 witness: CustomBCH with t = 2 returns -1 for the all-zero word with
\* the bits 0, 1 and 2 flipped
C10_Witness ==
  /\ c_pc = "decoded"
  /\ bch.t = 2
  /\ _poly_mod(0, bch.generator) = 0
  /\ c_data = <<0>>
  /\ c_recv_ecc = <<7>>
  /\ c_nerr = -1

RECURSIVE eval_at_alpha(_, _, _, _)
\* the value of the polynomial g of GF(2)[x] at alpha ** i, as a polynomial
\* in alpha before reduction: the terms of g from the power e upwards
eval_at_alpha(g, i, e, acc) ==
  IF g = 0 THEN acc
  ELSE eval_at_alpha(g \div 2, i, e + 1,
                     IF g % 2 = 1 THEN alpha_add(acc, {i * e}) ELSE acc)

\* alpha ** i is a root of g in GF(2)[alpha] / irr
is_root(g, i, irr) == alpha_mod(eval_at_alpha(g, i, 0, {}), irr) = {}

RECURSIVE x_power_loop(_, _, _)
\* acc * x^n % g in GF(2)[x], acc already reduced
x_power_loop(n, g, acc) ==
  IF n = 0 THEN acc
  ELSE LET step == gf2_rem(2 * acc, g)
       IN IF step >= 0 THEN x_power_loop(n - 1, g, step) ELSE 0

\* x^n % g in GF(2)[x]
x_power_rem(n, g) == x_power_loop(n, g, gf2_rem(1, g))

\* C11: generator synthesis: gen returns normally a g of which every
\* alpha ** i, i in b..b+d-2, is a root and that divides x^n - 1 (x^n
\* leaves remainder 1, so no factor is repeated); for (15, 1, 5) the irreducible polynomial is
\* alpha^4 + alpha + 1 and g = x^8 + x^7 + x^6 + x^4 + 1.
C11_GeneratorSynthesis ==
  g_pc = "generated"
    => /\ g_result.exc = ""
       /\ \A i \in code_generator.b..(code_generator.b + code_generator.d - 2) :
            is_root(g_result.val, i, exponents(irr_poly))
       /\ x_power_rem(code_generator.n, g_result.val) = 1
       /\ (code_generator.n = 15 /\ code_generator.b = 1 /\ code_generator.d = 5)
            => (irr_poly = 19 /\ g_result.val = 465)

(***************************************************************************)
(* Direct calls of the GF(16) functions of the terminal codec.             *)
(***************************************************************************)
\* the elements of GF(16)
GF16 == 0..15

\* exp_table, log_table = gf16_generate_tables()
FTables ==
  /\ script = "field"
  /\ f_pc = "start"
  /\ f_tables' = [exp_table |-> exp_table, log_table |-> log_table]
  /\ f_pc' = "tables"
  /\ UNCHANGED <<f_args, f_out, o_pc, o_args, o_result, mp_pc, mp_args, mp_result>>
  /\ UNCHANGED <<script, t_vars, c_vars, g_vars, k_vars>>

\* gf16_add, gf16_mul and gf16_inv called with the tables on a and b
FOps ==
  /\ f_pc = "tables"
  /\ \E a \in GF16, b \in GF16 :
       /\ f_args' = <<a, b>>
       /\ f_out' = [mul_ab |-> gf16_mul(a, b), mul_ba |-> gf16_mul(b, a),
                    add_aa |-> gf16_add(a, a), add_ab |-> gf16_add(a, b),
                    inv_a |-> gf16_inv(a),
                    mul_index |-> IF a = 0 \/ b = 0 THEN -1 ELSE log_result(a, b),
                    inv_index |-> IF a = 0 THEN -1 ELSE log_inv(a),
                    mul_a_inv |-> IF a = 0 THEN -1 ELSE gf16_mul(a, gf16_inv(a))]
  /\ f_pc' = "computed"
  /\ UNCHANGED <<f_tables, o_pc, o_args, o_result, mp_pc, mp_args, mp_result>>
  /\ UNCHANGED <<script, t_vars, c_vars, g_vars, k_vars>>

FNext == FTables \/ FOps

SpecField == Init /\ [][FNext]_vars

\* C12: GF(16) field laws: gf16_mul is commutative, gf16_add(a, a) = 0,
\* gf16_mul(a, gf16_inv(a)) = 1 for nonzero a, and
\* exp_table[log_table[v]] = v for every v in 1..15.
C12_FieldLaws ==
  /\ f_pc = "computed" =>
       /\ f_out.mul_ab = f_out.mul_ba
       /\ f_out.add_aa = 0
       /\ f_args[1] # 0 => f_out.mul_a_inv = 1
  /\ f_pc \in {"tables", "computed"} =>
       \A v \in 1..15 : f_tables.exp_table[f_tables.log_table[v]] = v

\* C12 witness: the functions were called on two different nonzero
\* elements whose product is not one of them
C12_Witness ==
  /\ f_pc = "computed"
  /\ f_args = <<7, 11>>
  /\ f_out.mul_ab \notin {0, 7, 11}
  /\ f_out.inv_a \notin {0, 1, 7}

\* C13 as stated: exp_table[0] = 1, exp_table[14] = 1 and
\* log_table[exp_table[i]] = i for every i in 0..14.
C13_Original ==
  f_pc = "tables" =>
    /\ f_tables.exp_table[0] = 1
    /\ f_tables.exp_table[14] = 1
    /\ \A i \in 0..14 : f_tables.log_table[f_tables.exp_table[i]] = i

\* C13 amended: exp_table[0] = 1 and the cycle closes at index 15, not 14:
\* exp_table[15] = 1, exp_table[14] = 9 and no entry of index 1..14 is 1;
\* log_table[exp_table[i]] = i for every i in 0..14.
C13_TableCheck ==
  f_pc \in {"tables", "computed"} =>
    /\ f_tables.exp_table[0] = 1
    /\ f_tables.exp_table[15] = 1
    /\ f_tables.exp_table[14] = 9
    /\ \A i \in 1..14 : f_tables.exp_table[i] # 1
    /\ \A i \in 0..14 : f_tables.log_table[f_tables.exp_table[i]] = i

\* C13 witness: gf16_generate_tables has returned tables of 30 and 16
\* entries whose entry 14 is not 1
C13_Witness ==
  /\ f_pc = "tables"
  /\ DOMAIN f_tables.exp_table = 0..29
  /\ DOMAIN f_tables.log_table = 0..15
  /\ f_tables.exp_table[14] # 1

\* C14: CustomBCH.decode is free of side effects: whatever it returns,
\* every attribute of the CustomBCH object (errloc included) and the
\* arguments data and recv_ecc are the same after the call as before it.
C14_DecodeNoSideEffects ==
  [][(c_pc = "received" /\ c_pc' = "decoded")
       => (bch' = bch /\ c_data' = c_data /\ c_recv_ecc' = c_recv_ecc)]_vars

(***************************************************************************)
(* Two callers of decode_and_correct on one shared CustomBCH object.  A    *)
(* step is one call of a method of the shared object.                      *)
(***************************************************************************)
\* the byte values of the corrupted codewords the callers hold
CallerBytes == {0, 1, 16, 128}

\* the pair returned by decode_and_correct; two empty lists stand for the
\* pair None, None
returned_pair(codeword, corrected_bits) ==
  [codeword |-> codeword, corrected_bits |-> corrected_bits]

\* bch = CustomBCH(t=args.t, m=4), shared by the callers
KNew ==
  /\ script = "callers"
  /\ \A c \in Callers : k_pc[c] = "idle"
  /\ \E t \in {1, 2} : k_bch' = CustomBCH(t, 4)
  /\ k_pc' = [c \in Callers |-> "ready"]
  /\ UNCHANGED <<k_corrupted, k_nerr, k_result>>
  /\ UNCHANGED <<script, t_vars, c_vars, g_vars, l_vars>>

\* caller c enters decode_and_correct(bch, corrupted_data) with a codeword
\* different from the other caller's
KCall(c) ==
  /\ k_pc[c] = "ready"
  /\ \E corrupted_data \in
          ByteArrays(((k_bch.k + 7) \div 8) + k_bch.ecc_bytes, CallerBytes) :
       /\ \A o \in Callers \ {c} : k_corrupted[o] # corrupted_data
       /\ k_corrupted' = [k_corrupted EXCEPT ![c] = corrupted_data]
  /\ k_pc' = [k_pc EXCEPT ![c] = "called"]
  /\ UNCHANGED <<k_bch, k_nerr, k_result>>
  /\ UNCHANGED <<script, t_vars, c_vars, g_vars, l_vars>>

\* caller c: nerr = bch.decode(data, recv_ecc)
KDecode(c) ==
  /\ k_pc[c] = "called"
  /\ LET data == slice_but_last(k_corrupted[c], k_bch.ecc_bytes)
         recv_ecc == slice_last(k_corrupted[c], k_bch.ecc_bytes)
         dec == CustomBCH_decode(k_bch, data, recv_ecc)
     IN /\ k_nerr' = [k_nerr EXCEPT ![c] = dec.nerr]
        /\ k_bch' = [k_bch EXCEPT !.errloc = dec.errloc]
  /\ k_pc' = [k_pc EXCEPT ![c] = "decoded"]
  /\ UNCHANGED <<k_corrupted, k_result>>
  /\ UNCHANGED <<script, t_vars, c_vars, g_vars, l_vars>>

\* caller c: the branch on nerr, bch.correct(data, recv_ecc) and the
\* return of the pair with bch.errloc
KCorrect(c) ==
  /\ k_pc[c] = "decoded"
  /\ LET data == slice_but_last(k_corrupted[c], k_bch.ecc_bytes)
         recv_ecc == slice_last(k_corrupted[c], k_bch.ecc_bytes)
         corrected == CustomBCH_correct(k_bch, data, recv_ecc)
     IN k_result' = [k_result EXCEPT ![c] =
                       IF k_nerr[c] >= 0
                       THEN returned_pair(corrected[1] \o corrected[2], k_bch.errloc)
                       ELSE returned_pair(<<>>, <<>>)]
  /\ k_pc' = [k_pc EXCEPT ![c] = "returned"]
  /\ UNCHANGED <<k_bch, k_corrupted, k_nerr>>
  /\ UNCHANGED <<script, t_vars, c_vars, g_vars, l_vars>>

KNext == KNew \/ \E c \in Callers : KCall(c) \/ KDecode(c) \/ KCorrect(c)

SpecCallers == Init /\ [][KNext]_vars

\* what caller c obtains when it runs decode_and_correct alone
alone(c) ==
  LET r == decode_and_correct(CustomBCH(k_bch.t, 4), k_corrupted[c])
  IN returned_pair(r.codeword, r.corrected_bits)

\* C15: concurrent decoding on a shared codec needs no locking: however the
\* decode and correct steps of two callers with different corrupted
\* codewords interleave, each caller obtains the result it would obtain
\* running alone.
C15_NoLockingNeeded ==
  \A c \in Callers : k_pc[c] = "returned" => k_result[c] = alone(c)

\* BchCodeGenerator(n, b, d).gen() alone, run to its end: a running call
\* keeps taking steps
GenNext == GNew \/ GGenStart \/ GGenDraw \/ GGenFinish

\* the variables one of which every step of gen changes
gen_vars == <<g_pc, irr_poly, quotient_size>>

SpecGen == Init /\ [][GenNext]_vars /\ WF_gen_vars(GenNext)

\* C16: bounded irreducible-polynomial search: once gen is in its search
\* loop, under every sequence of candidate draws it eventually leaves the
\* loop and finishes (with g or with an error).
C16_BoundedSearch == (g_pc = "searching") ~> (g_pc = "generated")

\* the degree of a nonzero polynomial of GF(2)[x]
degree(poly) == bit_length(poly) - 1

\* C17: message length of the synthesized code: coder.k = n - deg(g) for
\* the coder built from the pair returned by gen (7 for (15, 1, 5)), and
\* BchCoder.encode of a k-bit message returns exactly n coefficients.
C17_MessageLength ==
  /\ g_pc \in {"coder", "encoded", "received", "decoded"} =>
       /\ coder.k = coder.n - degree(coder.g)
       /\ (coder.n = 15 /\ coder.b = 1 /\ coder.d = 5) => coder.k = 7
  /\ g_pc \in {"encoded", "received", "decoded"} => Len(b_encoded) = coder.n

(***************************************************************************)
(* utils.order called on its own                                           *)
(***************************************************************************)

\* order(x, p) is called and returns
OOrder ==
  /\ script = "order"
  /\ o_pc = "start"
  /\ \E x \in 1..MaxBase, p \in 1..MaxModulus :
       /\ o_args' = <<x, p>>
       /\ o_result' = order(x, p)
  /\ o_pc' = "returned"
  /\ UNCHANGED <<f_pc, f_tables, f_args, f_out, mp_pc, mp_args, mp_result>>
  /\ UNCHANGED <<script, t_vars, c_vars, g_vars, k_vars>>

OrderNext == OOrder

SpecOrder == Init /\ [][OrderNext]_vars

RECURSIVE power_mod(_, _, _)
\* x^k % p
power_mod(x, k, p) == IF k = 0 THEN 1 % p ELSE (power_mod(x, k - 1, p) * x) % p

\* the exponents k in 1..p with x^k congruent to 1 modulo p; the
\* multiplicative order, when there is one, is at most p
unit_exponents(x, p) == {k \in 1..p : power_mod(x, k, p) = 1 % p}

\* C18: multiplicative order: when some k > 0 has x^k congruent to 1 mod p,
\* order(x, p) returns the smallest such k; when there is none it returns
\* None (0 here).
C18_MultiplicativeOrder ==
  o_pc = "returned" =>
    LET ks == unit_exponents(o_args[1], o_args[2])
    IN IF ks = {} THEN o_result = 0
       ELSE o_result \in ks /\ \A k \in ks : o_result <= k

(***************************************************************************)
(* Error location on the words of zero syndrome                            *)
(***************************************************************************)
\* the 15-bit words, as lists of bits, of which compute_syndromes returns
\* [0, 0, 0, 0]
zero_syndrome_words ==
  {codeword_bits \in {codeword_to_bits(w, 15) : w \in 0..(pow2(15) - 1)} :
     \A i \in 1..4 : compute_syndromes(codeword_bits)[i] = 0}

\* the sets of one or two distinct indices of codeword_bits
ErrorSets == FlipSets(Positions15, 2) \ {{}}

\* the elements of a list of positions
position_set(error_positions) == {error_positions[p] : p \in 1..Len(error_positions)}

\* C19: error location by the closed-form locator and Chien search: when
\* the received word is a word of zero syndrome with the bits at one or two
\* indices E flipped, solve_error_locator returns a locator (not None) and
\* chien_search a list of positions whose set is exactly E.
C19_ErrorLocation ==
  t_pc = "decoded" =>
    \A E \in ErrorSets :
      flip_str(t_received, E) \in zero_syndrome_words
        => /\ t_out.locator # <<>>
           /\ position_set(t_out.error_positions) = E

(***************************************************************************)
(* Trial-flip decoding of CustomBCH.decode                                 *)
(***************************************************************************)
\* the 15-bit words c with c mod generator = 0, for t = 1 and t = 2
generator_multiples ==
  [t \in {1, 2} |-> {c \in Words15 : _poly_mod(c, CustomBCH(t, 4).generator) = 0}]

\* the sets of 1..t distinct bit indices
TrialSets(t) == FlipSets(Positions15, t) \ {{}}

\* C20: trial-flip decoding in decode's own bit numbering (bit i is the
\* coefficient of x^i of the integer reassembled by _bytes_to_int): when
\* the received word is a multiple of the generator with the bits at a set E
\* of 1..t indices flipped, decode returns |E| and sets errloc to exactly
\* the positions E.
C20_TrialFlipDecoding ==
  c_pc = "decoded" =>
    LET codeword_bits == _bytes_to_int(c_data \o c_recv_ecc, bch.n)
    IN \A E \in TrialSets(bch.t) :
         xor(codeword_bits, bits_mask(E)) \in generator_multiples[bch.t]
           => /\ c_nerr = Cardinality(E)
              /\ position_set(bch.errloc) = E

(***************************************************************************)
(* utils.minimal_poly called on its own                                    *)
(***************************************************************************)
\* the code lengths minimal_poly is called with
MinimalLengths == {5, 7, 9, 15}

\* minimal_poly(i, n, 2, irr_poly) is called with an irreducible polynomial
\* of degree order(2, n) and returns or raises
MPCall ==
  /\ script = "minimal"
  /\ mp_pc = "start"
  /\ \E n \in MinimalLengths :
       \E i \in 0..(n - 1), irr \in gf_irreducible(order(2, n)) :
         /\ mp_args' = <<i, n, irr>>
         /\ mp_result' = minimal_poly(i, n, exponents(irr))
  /\ mp_pc' = "returned"
  /\ UNCHANGED <<f_pc, f_tables, f_args, f_out, o_pc, o_args, o_result>>
  /\ UNCHANGED <<script, t_vars, c_vars, g_vars, k_vars>>

MinimalNext == MPCall

SpecMinimal == Init /\ [][MinimalNext]_vars

\* the cyclotomic coset {i * 2^j mod n}
cyclotomic_coset(i, n) == {(i * pow2(j)) % n : j \in 0..(n - 1)}

RECURSIVE set_sum(_)
set_sum(S) == IF S = {} THEN 0 ELSE LET e == CHOOSE f \in S : TRUE IN e + set_sum(S \ {e})

\* the coefficient of x^(|C| - j) of the product of (x - alpha^c), c in C:
\* the sum of the products of j of the roots, as a polynomial in alpha
root_products(C, j) ==
  LET sums == {S \in SUBSET C : Cardinality(S) = j}
  IN {e \in 0..set_sum(C) : Cardinality({S \in sums : set_sum(S) = e}) % 2 = 1}

\* the coefficient above reduced modulo irr_poly
reduced_coefficient(C, j, irr) == alpha_mod(root_products(C, j), exponents(irr))

C22_ValidCodewordAgreement ==
  t_pc = "decoded" =>
    /\ (\A i \in 1..4 : t_out.syndromes[i] = 0)
         <=> poly_div(int2(t_received), encode_g)[2] = 0
    /\ (Len(t_message) = 7 /\ t_flipped = {}) => t_out.outcome = "no_errors"

\* C23: the irreducible polynomial accepted by gen is fit for the code
\* length: the polynomial that passed len(power_dict(n, irr_poly, 2)) >= n
\* satisfies alpha^n = 1 modulo itself, and gen does not fail with the
\* exception of minimal_poly.
C23_AcceptedIrreducibleFits ==
  g_pc = "generated" =>
    /\ quotient_size >= code_generator.n
    /\ x_power_rem(code_generator.n, irr_poly) = 1
    /\ g_result.exc # "Exception"

(***************************************************************************)
(* The hard-coded generators                                               *)
(***************************************************************************)
\* the generator of the BCH code of length 15 correcting t errors: the LCM
\* of the minimal polynomials of alpha^1..alpha^(2t) over GF(16) defined by
\* x^4 + x + 1, as BchCodeGenerator(15, 1, 2t + 1).gen computes it
designed_generators == {<<t, gen_g(15, 1, 2 * t + 1, exponents(gf16_p))>> : t \in {1, 2}}

\* C24: every hard-coded generator is the BCH generator of its
\* configuration: 0b111010001 of the terminal encode and the generator of
\* CustomBCH for t = 2 equal the LCM of the minimal polynomials of
\* alpha^1..alpha^4, the generator of CustomBCH for t = 1 equals the LCM of
\* those of alpha^1..alpha^2, and each divides x^15 + 1.
C24_HardCodedGenerators ==
  c_pc \in {"ready", "encoded", "corrupted", "done"} =>
    /\ table_value(designed_generators, 2) = returned(encode_g)
    /\ x_power_rem(15, encode_g) = 1
    /\ table_value(designed_generators, bch.t) = returned(bch.generator)
    /\ x_power_rem(15, bch.generator) = 1

\* C25: table-based multiplication agrees with polynomial arithmetic: for
\* all a, b in 0..15, gf16_mul(a, b) is the remainder of
\* poly_div(poly_mul(a, b), 0b10011), it lies in 0..15, and every index at
\* which gf16_mul and gf16_inv read exp_table lies in 0..14.
C25_TableMultiplication ==
  f_pc = "computed" =>
    LET a == f_args[1]
        b == f_args[2]
    IN /\ f_out.mul_ab = poly_div(poly_mul(a, b), gf16_p)[2]
       /\ f_out.mul_ab \in 0..15
       /\ (a # 0 /\ b # 0) => f_out.mul_index \in 0..14
       /\ a # 0 => f_out.inv_index \in 0..14

\* C25 witness: alpha^14 times alpha^14, where the sum of the logarithms
\* wraps around, and the inverse of alpha^14
C25_Witness ==
  /\ f_pc = "computed"
  /\ f_args = <<9, 9>>
  /\ f_tables.log_table[9] = 14
  /\ f_out.mul_index = 13
  /\ f_out.mul_ab = poly_div(poly_mul(9, 9), gf16_p)[2]
  /\ f_out.inv_index = 1
====
